---- MODULE Spec2Model ----
(***************************************************************************)
(* Model of infi.clickhouse_orm system_models.SystemPart: the read-only    *)
(* record of system.parts, the partition operations that build an ALTER    *)
(* statement and hand it to Database.raw(), and the two class methods that *)
(* build a SELECT and hand it to Database.select().                        *)
(*                                                                         *)
(* Text is a sequence of Unicode code points, as a Python str is;         *)
(* formatting, joining, upper-casing and the shape of a statement are      *)
(* computed on the code points with SubSeq and \o.                         *)
(***************************************************************************)
EXTENDS Integers, Sequences, FiniteSets

VARIABLES inv, calls, result, settingsAfter, held, heldFrom

vars == <<inv, calls, result, settingsAfter, held, heldFrom>>

----------------------------------------------------------------------------
(* Bounds of the explored inputs.                                          *)

NumDbs == 2
NumPartitions == 2

----------------------------------------------------------------------------
(* Text helpers.                                                           *)

\* The i-th character of s.
Char(s, i) == SubSeq(s, i, i)

\* The backquote character (a string literal cannot hold it alone).
BackQuote == SubSeq("`'", 1, 1)

\* The characters the text literals of this module are written with, in
\* runs of consecutive code points: the first code point of the run, then
\* its characters.
Printable ==
    << <<32, " !">>,
       <<35, "#$%&'()*+,-./0123456789:;<=>?@ABCDEFGHIJKLMNOPQRSTUVWXYZ[">>,
       <<93, "]^_">>,
       <<96, BackQuote>>,
       <<97, "abcdefghijklmnopqrstuvwxyz{|}~">> >>

\* The code point of a character of Printable.
CodePoint ==
    LET pairs == UNION {{<<Char(Printable[k][2], i), Printable[k][1] + i - 1>>
                            : i \in 1..Len(Printable[k][2])} : k \in 1..Len(Printable)}
    IN [c \in {p[1] : p \in pairs} |-> (CHOOSE p \in pairs : p[1] = c)[2]]

\* The text written as the literal s.
RECURSIVE Str(_)
Str(s) == IF s = "" THEN <<>> ELSE <<CodePoint[Head(s)]>> \o Str(Tail(s))

\* str(i) of a one-digit number.
Digit(i) == <<48 + i>>

\* str.upper() maps every character to its capital form (the full case
\* mapping of Unicode, whatever the locale and whatever the neighbours of
\* the character) and keeps a character that has none.
\* UpperRanges lists the characters with a one-character capital form:
\* <<lo, hi, step, delta>> says that lo, lo + step, ..., hi have the capital
\* form delta further.
UpperRanges ==
    << <<97, 122, 1, -32>>, <<181, 181, 1, 743>>, <<224, 246, 1, -32>>,
       <<248, 254, 1, -32>>, <<255, 255, 1, 121>>, <<257, 303, 2, -1>>,
       <<305, 305, 1, -232>>, <<307, 311, 2, -1>>, <<314, 328, 2, -1>>,
       <<331, 375, 2, -1>>, <<378, 382, 2, -1>>, <<383, 383, 1, -300>>,
       <<384, 384, 1, 195>>, <<387, 389, 2, -1>>, <<392, 392, 1, -1>>,
       <<396, 396, 1, -1>>, <<402, 402, 1, -1>>, <<405, 405, 1, 97>>,
       <<409, 409, 1, -1>>, <<410, 410, 1, 163>>, <<414, 414, 1, 130>>,
       <<417, 421, 2, -1>>, <<424, 424, 1, -1>>, <<429, 429, 1, -1>>,
       <<432, 432, 1, -1>>, <<436, 438, 2, -1>>, <<441, 441, 1, -1>>,
       <<445, 445, 1, -1>>, <<447, 447, 1, 56>>, <<453, 453, 1, -1>>,
       <<454, 454, 1, -2>>, <<456, 456, 1, -1>>, <<457, 457, 1, -2>>,
       <<459, 459, 1, -1>>, <<460, 460, 1, -2>>, <<462, 476, 2, -1>>,
       <<477, 477, 1, -79>>, <<479, 495, 2, -1>>, <<498, 498, 1, -1>>,
       <<499, 499, 1, -2>>, <<501, 501, 1, -1>>, <<505, 543, 2, -1>>,
       <<547, 563, 2, -1>>, <<572, 572, 1, -1>>, <<575, 576, 1, 10815>>,
       <<578, 578, 1, -1>>, <<583, 591, 2, -1>>, <<592, 592, 1, 10783>>,
       <<593, 593, 1, 10780>>, <<594, 594, 1, 10782>>, <<595, 595, 1, -210>>,
       <<596, 596, 1, -206>>, <<598, 599, 1, -205>>, <<601, 601, 1, -202>>,
       <<603, 603, 1, -203>>, <<604, 604, 1, 42319>>, <<608, 608, 1, -205>>,
       <<609, 609, 1, 42315>>, <<611, 611, 1, -207>>, <<613, 613, 1, 42280>>,
       <<614, 614, 1, 42308>>, <<616, 616, 1, -209>>, <<617, 617, 1, -211>>,
       <<618, 618, 1, 42308>>, <<619, 619, 1, 10743>>,
       <<620, 620, 1, 42305>>, <<623, 623, 1, -211>>, <<625, 625, 1, 10749>>,
       <<626, 626, 1, -213>>, <<629, 629, 1, -214>>, <<637, 637, 1, 10727>>,
       <<640, 640, 1, -218>>, <<642, 642, 1, 42307>>, <<643, 643, 1, -218>>,
       <<647, 647, 1, 42282>>, <<648, 648, 1, -218>>, <<649, 649, 1, -69>>,
       <<650, 651, 1, -217>>, <<652, 652, 1, -71>>, <<658, 658, 1, -219>>,
       <<669, 669, 1, 42261>>, <<670, 670, 1, 42258>>, <<837, 837, 1, 84>>,
       <<881, 883, 2, -1>>, <<887, 887, 1, -1>>, <<891, 893, 1, 130>>,
       <<940, 940, 1, -38>>, <<941, 943, 1, -37>>, <<945, 961, 1, -32>>,
       <<962, 962, 1, -31>>, <<963, 971, 1, -32>>, <<972, 972, 1, -64>>,
       <<973, 974, 1, -63>>, <<976, 976, 1, -62>>, <<977, 977, 1, -57>>,
       <<981, 981, 1, -47>>, <<982, 982, 1, -54>>, <<983, 983, 1, -8>>,
       <<985, 1007, 2, -1>>, <<1008, 1008, 1, -86>>, <<1009, 1009, 1, -80>>,
       <<1010, 1010, 1, 7>>, <<1011, 1011, 1, -116>>, <<1013, 1013, 1, -96>>,
       <<1016, 1016, 1, -1>>, <<1019, 1019, 1, -1>>, <<1072, 1103, 1, -32>>,
       <<1104, 1119, 1, -80>>, <<1121, 1153, 2, -1>>, <<1163, 1215, 2, -1>>,
       <<1218, 1230, 2, -1>>, <<1231, 1231, 1, -15>>, <<1233, 1327, 2, -1>>,
       <<1377, 1414, 1, -48>>, <<4304, 4346, 1, 3008>>,
       <<4349, 4351, 1, 3008>>, <<5112, 5117, 1, -8>>,
       <<7296, 7296, 1, -6254>>, <<7297, 7297, 1, -6253>>,
       <<7298, 7298, 1, -6244>>, <<7299, 7300, 1, -6242>>,
       <<7301, 7301, 1, -6243>>, <<7302, 7302, 1, -6236>>,
       <<7303, 7303, 1, -6181>>, <<7304, 7304, 1, 35266>>,
       <<7545, 7545, 1, 35332>>, <<7549, 7549, 1, 3814>>,
       <<7566, 7566, 1, 35384>>, <<7681, 7829, 2, -1>>,
       <<7835, 7835, 1, -59>>, <<7841, 7935, 2, -1>>, <<7936, 7943, 1, 8>>,
       <<7952, 7957, 1, 8>>, <<7968, 7975, 1, 8>>, <<7984, 7991, 1, 8>>,
       <<8000, 8005, 1, 8>>, <<8017, 8023, 2, 8>>, <<8032, 8039, 1, 8>>,
       <<8048, 8049, 1, 74>>, <<8050, 8053, 1, 86>>, <<8054, 8055, 1, 100>>,
       <<8056, 8057, 1, 128>>, <<8058, 8059, 1, 112>>,
       <<8060, 8061, 1, 126>>, <<8112, 8113, 1, 8>>,
       <<8126, 8126, 1, -7205>>, <<8144, 8145, 1, 8>>, <<8160, 8161, 1, 8>>,
       <<8165, 8165, 1, 7>>, <<8526, 8526, 1, -28>>, <<8560, 8575, 1, -16>>,
       <<8580, 8580, 1, -1>>, <<9424, 9449, 1, -26>>,
       <<11312, 11359, 1, -48>>, <<11361, 11361, 1, -1>>,
       <<11365, 11365, 1, -10795>>, <<11366, 11366, 1, -10792>>,
       <<11368, 11372, 2, -1>>, <<11379, 11379, 1, -1>>,
       <<11382, 11382, 1, -1>>, <<11393, 11491, 2, -1>>,
       <<11500, 11502, 2, -1>>, <<11507, 11507, 1, -1>>,
       <<11520, 11557, 1, -7264>>, <<11559, 11559, 1, -7264>>,
       <<11565, 11565, 1, -7264>>, <<42561, 42605, 2, -1>>,
       <<42625, 42651, 2, -1>>, <<42787, 42799, 2, -1>>,
       <<42803, 42863, 2, -1>>, <<42874, 42876, 2, -1>>,
       <<42879, 42887, 2, -1>>, <<42892, 42892, 1, -1>>,
       <<42897, 42899, 2, -1>>, <<42900, 42900, 1, 48>>,
       <<42903, 42921, 2, -1>>, <<42933, 42947, 2, -1>>,
       <<42952, 42954, 2, -1>>, <<42961, 42961, 1, -1>>,
       <<42967, 42969, 2, -1>>, <<42998, 42998, 1, -1>>,
       <<43859, 43859, 1, -928>>, <<43888, 43967, 1, -38864>>,
       <<65345, 65370, 1, -32>>, <<66600, 66639, 1, -40>>,
       <<66776, 66811, 1, -40>>, <<66967, 66977, 1, -39>>,
       <<66979, 66993, 1, -39>>, <<66995, 67001, 1, -39>>,
       <<67003, 67004, 1, -39>>, <<68800, 68850, 1, -64>>,
       <<71872, 71903, 1, -32>>, <<93792, 93823, 1, -32>>,
       <<125218, 125251, 1, -34>> >>

\* The characters whose capital form is longer than one character, each
\* with that form.
UpperSpecial ==
    << <<223, <<83, 83>>>>, <<329, <<700, 78>>>>, <<496, <<74, 780>>>>,
       <<912, <<921, 776, 769>>>>, <<944, <<933, 776, 769>>>>,
       <<1415, <<1333, 1362>>>>, <<7830, <<72, 817>>>>,
       <<7831, <<84, 776>>>>, <<7832, <<87, 778>>>>, <<7833, <<89, 778>>>>,
       <<7834, <<65, 702>>>>, <<8016, <<933, 787>>>>,
       <<8018, <<933, 787, 768>>>>, <<8020, <<933, 787, 769>>>>,
       <<8022, <<933, 787, 834>>>>, <<8064, <<7944, 921>>>>,
       <<8065, <<7945, 921>>>>, <<8066, <<7946, 921>>>>,
       <<8067, <<7947, 921>>>>, <<8068, <<7948, 921>>>>,
       <<8069, <<7949, 921>>>>, <<8070, <<7950, 921>>>>,
       <<8071, <<7951, 921>>>>, <<8072, <<7944, 921>>>>,
       <<8073, <<7945, 921>>>>, <<8074, <<7946, 921>>>>,
       <<8075, <<7947, 921>>>>, <<8076, <<7948, 921>>>>,
       <<8077, <<7949, 921>>>>, <<8078, <<7950, 921>>>>,
       <<8079, <<7951, 921>>>>, <<8080, <<7976, 921>>>>,
       <<8081, <<7977, 921>>>>, <<8082, <<7978, 921>>>>,
       <<8083, <<7979, 921>>>>, <<8084, <<7980, 921>>>>,
       <<8085, <<7981, 921>>>>, <<8086, <<7982, 921>>>>,
       <<8087, <<7983, 921>>>>, <<8088, <<7976, 921>>>>,
       <<8089, <<7977, 921>>>>, <<8090, <<7978, 921>>>>,
       <<8091, <<7979, 921>>>>, <<8092, <<7980, 921>>>>,
       <<8093, <<7981, 921>>>>, <<8094, <<7982, 921>>>>,
       <<8095, <<7983, 921>>>>, <<8096, <<8040, 921>>>>,
       <<8097, <<8041, 921>>>>, <<8098, <<8042, 921>>>>,
       <<8099, <<8043, 921>>>>, <<8100, <<8044, 921>>>>,
       <<8101, <<8045, 921>>>>, <<8102, <<8046, 921>>>>,
       <<8103, <<8047, 921>>>>, <<8104, <<8040, 921>>>>,
       <<8105, <<8041, 921>>>>, <<8106, <<8042, 921>>>>,
       <<8107, <<8043, 921>>>>, <<8108, <<8044, 921>>>>,
       <<8109, <<8045, 921>>>>, <<8110, <<8046, 921>>>>,
       <<8111, <<8047, 921>>>>, <<8114, <<8122, 921>>>>,
       <<8115, <<913, 921>>>>, <<8116, <<902, 921>>>>,
       <<8118, <<913, 834>>>>, <<8119, <<913, 834, 921>>>>,
       <<8124, <<913, 921>>>>, <<8130, <<8138, 921>>>>,
       <<8131, <<919, 921>>>>, <<8132, <<905, 921>>>>,
       <<8134, <<919, 834>>>>, <<8135, <<919, 834, 921>>>>,
       <<8140, <<919, 921>>>>, <<8146, <<921, 776, 768>>>>,
       <<8147, <<921, 776, 769>>>>, <<8150, <<921, 834>>>>,
       <<8151, <<921, 776, 834>>>>, <<8162, <<933, 776, 768>>>>,
       <<8163, <<933, 776, 769>>>>, <<8164, <<929, 787>>>>,
       <<8166, <<933, 834>>>>, <<8167, <<933, 776, 834>>>>,
       <<8178, <<8186, 921>>>>, <<8179, <<937, 921>>>>,
       <<8180, <<911, 921>>>>, <<8182, <<937, 834>>>>,
       <<8183, <<937, 834, 921>>>>, <<8188, <<937, 921>>>>,
       <<64256, <<70, 70>>>>, <<64257, <<70, 73>>>>, <<64258, <<70, 76>>>>,
       <<64259, <<70, 70, 73>>>>, <<64260, <<70, 70, 76>>>>,
       <<64261, <<83, 84>>>>, <<64262, <<83, 84>>>>,
       <<64275, <<1348, 1350>>>>, <<64276, <<1348, 1333>>>>,
       <<64277, <<1348, 1339>>>>, <<64278, <<1358, 1350>>>>,
       <<64279, <<1348, 1341>>>> >>

UpperOf ==
    LET single == UNION {{<<c, <<c + UpperRanges[k][4]>>>>
                             : c \in {d \in UpperRanges[k][1]..UpperRanges[k][2]
                                        : (d - UpperRanges[k][1]) % UpperRanges[k][3] = 0}}
                         : k \in 1..Len(UpperRanges)}
        special == {UpperSpecial[k] : k \in 1..Len(UpperSpecial)}
        pairs == single \cup special
    IN [c \in {p[1] : p \in pairs} |-> (CHOOSE p \in pairs : p[1] = c)[2]]

\* str.upper() on the one character of code point c.
upperChar(c) == IF c \in DOMAIN UpperOf THEN UpperOf[c] ELSE <<c>>

\* str.upper()
RECURSIVE upper(_)
upper(s) == IF s = <<>> THEN <<>> ELSE upperChar(Head(s)) \o upper(Tail(s))

\* First position at which pat occurs in s, 0 when it does not occur.
IndexOf(s, pat) ==
    LET hits == {i \in 1..(Len(s) - Len(pat) + 1) : SubSeq(s, i, i + Len(pat) - 1) = pat}
    IN IF hits = {} THEN 0 ELSE CHOOSE i \in hits : \A j \in hits : i <= j

Contains(s, pat) == IndexOf(s, pat) > 0

StartsWith(s, pre) ==
    /\ Len(s) >= Len(pre)
    /\ SubSeq(s, 1, Len(pre)) = pre

EndsWith(s, suf) ==
    /\ Len(s) >= Len(suf)
    /\ SubSeq(s, Len(s) - Len(suf) + 1, Len(s)) = suf

\* The part of s after the first occurrence of pat (empty when absent).
After(s, pat) ==
    LET i == IndexOf(s, pat)
    IN IF i = 0 THEN <<>> ELSE SubSeq(s, i + Len(pat), Len(s))

\* The part of s before the first occurrence of pat (all of s when absent).
Before(s, pat) ==
    LET i == IndexOf(s, pat)
    IN IF i = 0 THEN s ELSE SubSeq(s, 1, i - 1)

\* s split at every occurrence of sep.
RECURSIVE Split(_, _)
Split(s, sep) ==
    LET i == IndexOf(s, sep)
    IN IF i = 0 THEN <<s>>
       ELSE <<SubSeq(s, 1, i - 1)>> \o Split(SubSeq(s, i + Len(sep), Len(s)), sep)

\* sep.join(names)
RECURSIVE Join(_, _)
Join(sep, names) ==
    IF Len(names) = 0 THEN <<>>
    ELSE IF Len(names) = 1 THEN names[1]
    ELSE names[1] \o sep \o Join(sep, Tail(names))

\* The % operator on a format of %s conversions and a tuple of texts. The
\* format is cut at its conversions once (FormatPieces); Format then puts
\* the arguments, from the left, between the pieces.
FormatPieces(fmt) == Split(fmt, Str("%s"))

RECURSIVE Format(_, _)
Format(pieces, args) ==
    IF Len(pieces) = 1 THEN pieces[1]
    ELSE pieces[1] \o args[1] \o Format(Tail(pieces), Tail(args))

----------------------------------------------------------------------------
(* SystemPart: class attributes.                                           *)

OPERATIONS == {Str("DETACH"), Str("DROP"), Str("ATTACH"), Str("FREEZE"), Str("FETCH")}

\* cls._fields as the model metaclass collects it: the names of the declared
\* fields, in declaration order.
Fields ==
    <<Str("database"), Str("table"), Str("engine"), Str("partition"), Str("name"),
      Str("replicated"), Str("active"), Str("marks"), Str("bytes"),
      Str("modification_time"), Str("remove_time"), Str("refcount")>>

table_name == Str("system.parts")

\* The format strings of the statements.
AlterFormat == FormatPieces(Str("ALTER TABLE `%s`.`%s` %s PARTITION '%s'"))
FromFormat == FormatPieces(Str(" FROM %s"))
GetActiveFormat == FormatPieces(Str("SELECT %s FROM %s WHERE active AND database='%s'"))
AllFormat == FormatPieces(Str("SELECT %s FROM %s WHERE database='%s'"))

----------------------------------------------------------------------------
(* The environment: connections, the server parts, caller arguments.       *)

DbName(i) == Str("db") \o Digit(i)
PartitionName(j) == Str("20190") \o Digit(j)
ZkPath == Str("/zk/p1")

\* One Database instance per database name, plus one object that offers
\* db_name, raw() and select() but is not an instance of Database.
Connections ==
    {[id |-> i, isDatabase |-> TRUE, db_name |-> DbName(i)] : i \in 1..NumDbs}
    \cup {[id |-> 0, isDatabase |-> FALSE, db_name |-> DbName(1)]}

\* Rows of system.parts on the server: in every database, one part per
\* partition of the table; the parts of the odd partitions are active, those
\* of the even partitions are not.
ServerParts ==
    {[database |-> DbName(i), table |-> Str("events"), engine |-> Str("MergeTree"),
      partition |-> PartitionName(j),
      name |-> PartitionName(j) \o Str("_1_1_0"),
      replicated |-> 0, active |-> j % 2, marks |-> 1, bytes |-> 1,
      modification_time |-> 1, remove_time |-> 1 - (j % 2), refcount |-> 1]
     : i \in 1..NumDbs, j \in 1..NumPartitions}

\* Placeholder for self in the invocation of a class method.
NoPart ==
    [database |-> <<>>, table |-> <<>>, engine |-> <<>>, partition |-> <<>>,
     name |-> <<>>, replicated |-> 0, active |-> 0, marks |-> 0, bytes |-> 0,
     modification_time |-> 0, remove_time |-> 0, refcount |-> 0]

\* settings: Python None, or a bag of key/value pairs.
NoSettings == [none |-> TRUE, kv |-> {}]
SettingsValues == {NoSettings, [none |-> FALSE, kv |-> {<<Str("max_threads"), 1>>}]}

\* from_part / zookeeper_path: Python None, or a text.
NoText == [none |-> TRUE, text |-> <<>>]
Text(t) == [none |-> FALSE, text |-> t]
PathValues == {NoText, Text(<<>>), Text(ZkPath)}

\* What the server answers to the one request of an invocation.
Outcomes == {"ok", "ServerError"}

\* Operation names handed to the builder directly; the last two are freeze
\* with e acute (U+00E9) for its two e, and drop followed by y with
\* diaeresis (U+00FF).
OperationNames ==
    {Str("DROP"), Str("freeze"), Str("Fetch"), Str("merge"),
     Str("fr") \o <<233, 233>> \o Str("ze"),
     Str("drop") \o <<255>>}

----------------------------------------------------------------------------
(* Results of a method.                                                    *)

ReturnNone == [text |-> <<>>, kind |-> "return", exc |-> "", isNone |-> TRUE, rows |-> {}]
ReturnRows(rs) == [text |-> <<>>, kind |-> "return", exc |-> "", isNone |-> FALSE, rows |-> rs]
Raise(e) == [text |-> <<>>, kind |-> "raise", exc |-> e, isNone |-> FALSE, rows |-> {}]

\* The effect of one method: the calls it made on the connection, what it
\* gave back to its caller, and the caller settings object afterwards.
Effect(cs, r, s) == [calls |-> cs, result |-> r, settingsAfter |-> s]

----------------------------------------------------------------------------
(* The Database collaborator (database.py), as far as SystemPart uses it.  *)

Call(m, db, q, s, str, cls) ==
    [method |-> m, conn |-> db.id, sql |-> q, settings |-> s,
     stream |-> str, model_class |-> cls]

\* Database.raw(sql, settings, stream): one request to the server; a failure
\* of the server or of the network is raised to the caller.
raw(db, sql, settings, stream, outcome) ==
    [call |-> Call("raw", db, sql, settings, stream, ""),
     raised |-> outcome # "ok", error |-> outcome]

\* The server evaluation of the WHERE clause of a SELECT over system.parts:
\* an active condition keeps the active parts, a database= condition keeps
\* the parts of the database named between the quotes.
SelectRows(sql) ==
    LET where == After(sql, Str(" WHERE "))
        activeFilter == where = Str("active") \/ StartsWith(where, Str("active "))
        dbFilter == Contains(where, Str("database='"))
        dbValue == Before(After(where, Str("database='")), Str("'"))
    IN {r \in ServerParts :
          /\ activeFilter => r.active # 0
          /\ dbFilter => r.database = dbValue}

\* Database.select(sql, model_class): one request to the server; the rows
\* of the answer become model_class records.
select(db, sql, model_class, outcome) ==
    [call |-> Call("select", db, sql, NoSettings, FALSE, model_class),
     raised |-> outcome # "ok", error |-> outcome,
     answer |-> IF outcome = "ok" THEN SelectRows(sql) ELSE {}]

----------------------------------------------------------------------------
(* SystemPart: methods.                                                    *)

\* Variants of _partition_operation_sql, each with one slip.
\* The FROM clause is appended whether or not a source was given.
_partition_operation_sql_always_from(self, db, operation, settings, from_part, outcome) ==
    LET op == upper(operation)
        sql0 == Format(AlterFormat, <<db.db_name, self.table, op, self.partition>>)
        sql == sql0 \o Format(FromFormat, <<IF from_part.none THEN Str("None") ELSE from_part.text>>)
        r == raw(db, sql, settings, FALSE, outcome)
    IN IF op \notin OPERATIONS
       THEN Effect(<<>>, Raise("AssertionError"), settings)
       ELSE Effect(<<r.call>>, IF r.raised THEN Raise(r.error) ELSE ReturnNone, settings)

\* The operation name is not checked against OPERATIONS.
_partition_operation_sql_unchecked(self, db, operation, settings, from_part, outcome) ==
    LET op == upper(operation)
        sql0 == Format(AlterFormat, <<db.db_name, self.table, op, self.partition>>)
        sql == IF ~from_part.none
               THEN sql0 \o Format(FromFormat, <<from_part.text>>)
               ELSE sql0
        r == raw(db, sql, settings, FALSE, outcome)
    IN Effect(<<r.call>>, IF r.raised THEN Raise(r.error) ELSE ReturnNone, settings)

\* A failed request is sent a second time.
_partition_operation_sql_retry(self, db, operation, settings, from_part, outcome) ==
    LET op == upper(operation)
        sql0 == Format(AlterFormat, <<db.db_name, self.table, op, self.partition>>)
        sql == IF ~from_part.none
               THEN sql0 \o Format(FromFormat, <<from_part.text>>)
               ELSE sql0
        r == raw(db, sql, settings, FALSE, outcome)
    IN IF op \notin OPERATIONS
       THEN Effect(<<>>, Raise("AssertionError"), settings)
       ELSE IF r.raised
            THEN Effect(<<r.call, r.call>>, Raise(r.error), settings)
            ELSE Effect(<<r.call>>, ReturnNone, settings)

\* The settings are not handed on to raw().
_partition_operation_sql_drop_settings(self, db, operation, settings, from_part, outcome) ==
    LET op == upper(operation)
        sql0 == Format(AlterFormat, <<db.db_name, self.table, op, self.partition>>)
        sql == IF ~from_part.none
               THEN sql0 \o Format(FromFormat, <<from_part.text>>)
               ELSE sql0
        r == raw(db, sql, NoSettings, FALSE, outcome)
    IN IF op \notin OPERATIONS
       THEN Effect(<<>>, Raise("AssertionError"), settings)
       ELSE Effect(<<r.call>>, IF r.raised THEN Raise(r.error) ELSE ReturnNone, settings)

\* SystemPart._partition_operation_sql(self, db, operation, settings, from_part)
_partition_operation_sql(self, db, operation, settings, from_part, outcome) ==
    LET op == upper(operation)
        sql0 == Format(AlterFormat, <<db.db_name, self.table, op, self.partition>>)
        sql == IF ~from_part.none
               THEN sql0 \o Format(FromFormat, <<from_part.text>>)
               ELSE sql0
        r == raw(db, sql, settings, FALSE, outcome)
    IN IF op \notin OPERATIONS
       THEN Effect(<<>>, Raise("AssertionError"), settings)
       ELSE Effect(<<r.call>>, IF r.raised THEN Raise(r.error) ELSE ReturnNone, settings)

detach(self, database, settings, outcome) ==
    _partition_operation_sql(self, database, Str("DETACH"), settings, NoText, outcome)

drop(self, database, settings, outcome) ==
    _partition_operation_sql(self, database, Str("DROP"), settings, NoText, outcome)

attach(self, database, settings, outcome) ==
    _partition_operation_sql(self, database, Str("ATTACH"), settings, NoText, outcome)

freeze(self, database, settings, outcome) ==
    _partition_operation_sql(self, database, Str("FREEZE"), settings, NoText, outcome)

\* Variant of fetch: the source path is not handed on.
fetch_without_path(self, database, zookeeper_path, settings, outcome) ==
    _partition_operation_sql(self, database, Str("FETCH"), settings, NoText, outcome)

fetch(self, database, zookeeper_path, settings, outcome) ==
    _partition_operation_sql(self, database, Str("FETCH"), settings, zookeeper_path, outcome)

\* Variant of get_active: the active condition is missing.
get_active_without_active(database, outcome) ==
    LET field_names == Join(Str(","), Fields)
        sql == Format(AllFormat, <<field_names, table_name, database.db_name>>)
        r == select(database, sql, "SystemPart", outcome)
    IN IF ~database.isDatabase
       THEN Effect(<<>>, Raise("AssertionError"), NoSettings)
       ELSE Effect(<<r.call>>, IF r.raised THEN Raise(r.error) ELSE ReturnRows(r.answer), NoSettings)

\* Variant of get_active: the database condition is missing.
get_active_without_database(database, outcome) ==
    LET field_names == Join(Str(","), Fields)
        sql == Format(FormatPieces(Str("SELECT %s FROM %s WHERE active")), <<field_names, table_name>>)
        r == select(database, sql, "SystemPart", outcome)
    IN IF ~database.isDatabase
       THEN Effect(<<>>, Raise("AssertionError"), NoSettings)
       ELSE Effect(<<r.call>>, IF r.raised THEN Raise(r.error) ELSE ReturnRows(r.answer), NoSettings)

\* SystemPart.get_active(cls, database)
get_active(database, outcome) ==
    LET field_names == Join(Str(","), Fields)
        sql == Format(GetActiveFormat, <<field_names, table_name, database.db_name>>)
        r == select(database, sql, "SystemPart", outcome)
    IN IF ~database.isDatabase
       THEN Effect(<<>>, Raise("AssertionError"), NoSettings)
       ELSE Effect(<<r.call>>, IF r.raised THEN Raise(r.error) ELSE ReturnRows(r.answer), NoSettings)

\* Variant of all: the type of the connection is not checked.
all_unchecked(database, outcome) ==
    LET field_names == Join(Str(","), Fields)
        sql == Format(AllFormat, <<field_names, table_name, database.db_name>>)
        r == select(database, sql, "SystemPart", outcome)
    IN Effect(<<r.call>>, IF r.raised THEN Raise(r.error) ELSE ReturnRows(r.answer), NoSettings)

\* SystemPart.all(cls, database)
all(database, outcome) ==
    LET field_names == Join(Str(","), Fields)
        sql == Format(AllFormat, <<field_names, table_name, database.db_name>>)
        r == select(database, sql, "SystemPart", outcome)
    IN IF ~database.isDatabase
       THEN Effect(<<>>, Raise("AssertionError"), NoSettings)
       ELSE Effect(<<r.call>>, IF r.raised THEN Raise(r.error) ELSE ReturnRows(r.answer), NoSettings)

----------------------------------------------------------------------------
(* The state machine: a client that queries parts and operates on them.    *)
(*   inv            the invocation just made and its arguments             *)
(*   calls          the calls that invocation made on its connection       *)
(*   result         what the invocation gave back to its caller            *)
(*   settingsAfter  the caller settings object after the invocation        *)
(*   held           the records the client holds (last successful query)   *)
(*   heldFrom       id of the connection those records were queried on     *)

NoConn == [id |-> -1, isDatabase |-> FALSE, db_name |-> <<>>]

Invocation(m, db, self, origin, operation, settings, from_part, outcome) ==
    [method |-> m, conn |-> db, settings |-> settings, outcome |-> outcome,
     self |-> self, operation |-> operation, from_part |-> from_part,
     origin |-> origin]

Init ==
    /\ inv = Invocation("init", NoConn, NoPart, -1, <<>>, NoSettings, NoText, "ok")
    /\ calls = <<>>
    /\ result = ReturnNone
    /\ settingsAfter = NoSettings
    /\ held = {}
    /\ heldFrom = -1

\* A partition operation: the record stays with the client.
Operate(i, eff) ==
    /\ inv' = i
    /\ calls' = eff.calls
    /\ result' = eff.result
    /\ settingsAfter' = eff.settingsAfter
    /\ UNCHANGED <<held, heldFrom>>

\* A query: the records it returns replace the ones the client holds.
Query(i, eff) ==
    /\ inv' = i
    /\ calls' = eff.calls
    /\ result' = eff.result
    /\ settingsAfter' = eff.settingsAfter
    /\ IF eff.result.kind = "return"
       THEN held' = eff.result.rows /\ heldFrom' = i.conn.id
       ELSE UNCHANGED <<held, heldFrom>>

PartitionOperationSql ==
    \E self \in held, db \in Connections, operation \in OperationNames,
       settings \in SettingsValues, from_part \in {NoText, Text(ZkPath)}, outcome \in Outcomes :
        Operate(Invocation("_partition_operation_sql", db, self, heldFrom, operation,
                           settings, from_part, outcome),
                _partition_operation_sql(self, db, operation, settings, from_part, outcome))

Detach ==
    \E self \in held, db \in Connections, settings \in SettingsValues, outcome \in Outcomes :
        Operate(Invocation("detach", db, self, heldFrom, <<>>, settings, NoText, outcome),
                detach(self, db, settings, outcome))

Drop ==
    \E self \in held, db \in Connections, settings \in SettingsValues, outcome \in Outcomes :
        Operate(Invocation("drop", db, self, heldFrom, <<>>, settings, NoText, outcome),
                drop(self, db, settings, outcome))

Attach ==
    \E self \in held, db \in Connections, settings \in SettingsValues, outcome \in Outcomes :
        Operate(Invocation("attach", db, self, heldFrom, <<>>, settings, NoText, outcome),
                attach(self, db, settings, outcome))

Freeze ==
    \E self \in held, db \in Connections, settings \in SettingsValues, outcome \in Outcomes :
        Operate(Invocation("freeze", db, self, heldFrom, <<>>, settings, NoText, outcome),
                freeze(self, db, settings, outcome))

Fetch ==
    \E self \in held, db \in Connections, zookeeper_path \in PathValues,
       settings \in SettingsValues, outcome \in Outcomes :
        Operate(Invocation("fetch", db, self, heldFrom, <<>>, settings, zookeeper_path, outcome),
                fetch(self, db, zookeeper_path, settings, outcome))

GetActive ==
    \E db \in Connections, outcome \in Outcomes :
        Query(Invocation("get_active", db, NoPart, -1, <<>>, NoSettings, NoText, outcome),
              get_active(db, outcome))

All ==
    \E db \in Connections, outcome \in Outcomes :
        Query(Invocation("all", db, NoPart, -1, <<>>, NoSettings, NoText, outcome),
              all(db, outcome))

Next ==
    \/ PartitionOperationSql
    \/ Detach
    \/ Drop
    \/ Attach
    \/ Freeze
    \/ Fetch
    \/ GetActive
    \/ All

Spec == Init /\ [][Next]_vars

----------------------------------------------------------------------------
(* Vocabulary of the properties.                                           *)

WrapperMethods == {"detach", "drop", "attach", "freeze"}
PartitionMethods == WrapperMethods \cup {"fetch"}
QueryMethods == {"get_active", "all"}

\* ALTER TABLE, the backquoted names d and t joined by a dot, the operation,
\* PARTITION, and p between single quotes.
AlterStatement(d, t, op, p) ==
    Str("ALTER TABLE ") \o Str(BackQuote) \o d \o Str(BackQuote) \o Str(".")
    \o Str(BackQuote) \o t \o Str(BackQuote)
    \o Str(" ") \o op \o Str(" PARTITION '") \o p \o Str("'")

\* The database qualifier of an ALTER statement: the text between the first
\* pair of backquotes.
Qualifier(sql) == Before(After(sql, Str(BackQuote)), Str(BackQuote))

\* The names of the declared fields of SystemPart, in declaration order.
DeclaredFieldNames ==
    <<Str("database"), Str("table"), Str("engine"), Str("partition"), Str("name"),
      Str("replicated"), Str("active"), Str("marks"), Str("bytes"),
      Str("modification_time"), Str("remove_time"), Str("refcount")>>

\* The parts of a SELECT statement.
ColumnList(sql) == Split(Before(After(sql, Str("SELECT ")), Str(" FROM ")), Str(","))
FromTable(sql) == Before(After(sql, Str(" FROM ")), Str(" WHERE "))
WhereClause(sql) == After(sql, Str(" WHERE "))

\* Two names that differ at most in the case of their ASCII letters.
AsciiLower == Str("abcdefghijklmnopqrstuvwxyz")
AsciiUpper == Str("ABCDEFGHIJKLMNOPQRSTUVWXYZ")

SameIgnoringCase(a, b) ==
    /\ Len(a) = Len(b)
    /\ \A i \in 1..Len(a) :
          \/ Char(a, i) = Char(b, i)
          \/ \E k \in 1..Len(AsciiLower) :
                {Char(a, i), Char(b, i)} = {Char(AsciiLower, k), Char(AsciiUpper, k)}

FailedLocally == result = Raise("AssertionError") /\ calls = <<>>

----------------------------------------------------------------------------
(* Properties.                                                             *)

\* C1: detach, drop, attach and freeze hand the connection exactly the
\* statement ALTER TABLE d.t OPERATION PARTITION p (d and t backquoted, p in
\* single quotes), d being the db_name of the connection, t and p the table
\* and partition of the record, OPERATION the upper-case name of the method,
\* and the statement has no FROM clause.
C1_WrapperStatementExact ==
    inv.method \in WrapperMethods =>
        /\ Len(calls) = 1
        /\ calls[1].method = "raw"
        /\ \E o \in OPERATIONS :
              /\ SameIgnoringCase(o, Str(inv.method))
              /\ calls[1].sql = AlterStatement(inv.conn.db_name, inv.self.table, o,
                                               inv.self.partition)
        /\ ~Contains(calls[1].sql, Str(" FROM "))

\* C1 happens: freeze on the part of partition 201901 over the connection to
\* db1 sent the statement for db1.events, FREEZE, 201901.
C1_Witness ==
    /\ inv.method = "freeze"
    /\ result = ReturnNone
    /\ Len(calls) = 1
    /\ calls[1].sql = Str("ALTER TABLE `db1`.`events` FREEZE PARTITION '201901'")

\* C2 as stated: an operation whose name is not literally one of DETACH,
\* DROP, ATTACH, FREEZE, FETCH fails locally, with no call on the connection.
C2_AsStated ==
    (inv.method = "_partition_operation_sql" /\ inv.operation \notin OPERATIONS)
        => FailedLocally

\* C2 amended: an operation whose name is not one of DETACH, DROP, ATTACH,
\* FREEZE, FETCH in any letter case fails with the assertion error, and
\* raw() of the connection is not called.
C2_UnknownOperationRejected ==
    (/\ inv.method = "_partition_operation_sql"
     /\ \A o \in OPERATIONS : ~SameIgnoringCase(inv.operation, o))
        => FailedLocally

\* C2 happens: the builder was given merge and failed locally.
C2_Witness ==
    /\ inv.method = "_partition_operation_sql"
    /\ inv.operation = Str("merge")
    /\ FailedLocally

\* C3: fetch with a source path p hands the connection the FETCH statement
\* for the connection database and the record table and partition, followed
\* by exactly FROM p (one blank before and after FROM).
C3_FetchAppendsFromPath ==
    (inv.method = "fetch" /\ ~inv.from_part.none) =>
        /\ Len(calls) = 1
        /\ calls[1].method = "raw"
        /\ calls[1].sql = AlterStatement(inv.conn.db_name, inv.self.table, Str("FETCH"),
                                         inv.self.partition)
                          \o Str(" FROM ") \o inv.from_part.text
        /\ EndsWith(calls[1].sql, Str(" FROM ") \o inv.from_part.text)

\* C3 happens: fetch from /zk/p1 sent a statement ending in FROM /zk/p1.
C3_Witness ==
    /\ inv.method = "fetch"
    /\ inv.from_part = Text(ZkPath)
    /\ Len(calls) = 1
    /\ EndsWith(calls[1].sql, Str(" FETCH PARTITION '201901' FROM /zk/p1"))

\* C4: fetch without a source path (None) fails locally, and no statement is
\* handed to the connection.
C4_FetchWithoutPathRejected ==
    (inv.method = "fetch" /\ inv.from_part.none) =>
        /\ result.kind = "raise"
        /\ calls = <<>>

\* C5: get_active and all on a Database issue one SELECT whose column list
\* is the declared field names in declaration order, from system.parts, whose
\* WHERE clause has database= followed by the quoted db_name, and which has
\* the active condition for get_active and not for all.
C5_SelectStatementShape ==
    (inv.method \in QueryMethods /\ inv.conn.isDatabase) =>
        /\ Len(calls) = 1
        /\ calls[1].method = "select"
        /\ LET sql == calls[1].sql
           IN /\ StartsWith(sql, Str("SELECT "))
              /\ ColumnList(sql) = DeclaredFieldNames
              /\ FromTable(sql) = Str("system.parts")
              /\ Contains(WhereClause(sql), Str("database='") \o inv.conn.db_name \o Str("'"))
              /\ Contains(WhereClause(sql), Str("active")) <=> inv.method = "get_active"

\* C5 happens: get_active on a Database was answered with parts.
C5_Witness ==
    /\ inv.method = "get_active"
    /\ inv.conn.isDatabase
    /\ Len(calls) = 1
    /\ result.kind = "return"
    /\ result.rows # {}

\* C6: get_active and all given an object that is not a Database fail with
\* the assertion error, and select() of the object is not called.
C6_NonDatabaseRejected ==
    (inv.method \in QueryMethods /\ ~inv.conn.isDatabase) => FailedLocally

\* C6 happens: all was given an object that is not a Database.
C6_Witness ==
    /\ inv.method = "all"
    /\ ~inv.conn.isDatabase
    /\ FailedLocally

\* C7: detach, drop, attach, freeze and fetch return to their caller the text
\* of the statement they built.
C7_WrappersReturnStatement ==
    (inv.method \in PartitionMethods /\ result.kind = "return" /\ Len(calls) = 1) =>
        /\ ~result.isNone
        /\ result.text = calls[1].sql

\* C8: every invocation makes at most one call on the connection; when that
\* call fails, the invocation raises the same failure and makes no other call.
C8_AtMostOneCallNoRetry ==
    /\ Len(calls) <= 1
    /\ (Len(calls) >= 1 /\ inv.outcome # "ok") => result = Raise(inv.outcome)

\* C8 happens: the one call of an invocation failed on the server.
C8_Witness ==
    /\ inv.method \in PartitionMethods \cup QueryMethods
    /\ inv.outcome = "ServerError"
    /\ Len(calls) = 1
    /\ result = Raise("ServerError")

\* C9: the settings raw() receives from a partition operation are the
\* settings of the caller (None when omitted), and the settings object of the
\* caller is the same after the call.
C9_SettingsPassedThrough ==
    (inv.method \in PartitionMethods /\ Len(calls) >= 1) =>
        /\ \A i \in 1..Len(calls) : calls[i].settings = inv.settings
        /\ settingsAfter = inv.settings

\* C9 happens: a partition operation was called with a settings bag.
C9_Witness ==
    /\ inv.method \in PartitionMethods
    /\ ~inv.settings.none
    /\ inv.settings.kv # {}
    /\ Len(calls) = 1
    /\ calls[1].method = "raw"

\* C10: the database qualifier of every ALTER statement is the db_name of
\* the connection given to the operation; when the record was returned by
\* get_active or all on that same connection, the qualifier is the database
\* field of the record.
C10_QualifierIsConnectionDatabase ==
    (inv.method \in PartitionMethods \cup {"_partition_operation_sql"} /\ Len(calls) >= 1) =>
        /\ Qualifier(calls[1].sql) = inv.conn.db_name
        /\ inv.origin = inv.conn.id => Qualifier(calls[1].sql) = inv.self.database

\* C10 happens: a record was operated on over the connection it was queried
\* on.
C10_Witness ==
    /\ inv.method \in PartitionMethods
    /\ inv.origin = inv.conn.id
    /\ Len(calls) = 1
    /\ Qualifier(calls[1].sql) = inv.self.database

====
